---- MODULE Spec2Model ----
(***************************************************************************)
(* Block storage layer of btcdb's leveldb backend (ldb/block.go).          *)
(*                                                                         *)
(* The committed key-value store, the pending write batch and the         *)
(* in-memory tip cache of a LevelDb handle are the state; one action per   *)
(* operation of block.go.  Hashes are 32-byte sequences, heights are       *)
(* int64: stored little-endian in 8 bytes, and handled as 8-byte two's     *)
(* complement sequences wherever the code does arithmetic on caller input. *)
(* The mutex db.dbLock and the position of each concurrent caller are      *)
(* state as well; the operations run one at a time except under SpecLock,  *)
(* which steps them line by line.                                          *)
(***************************************************************************)
EXTENDS Integers, Sequences, FiniteSets, TLC

VARIABLES
    store,             \* db.lDb: committed key -> value
    batch,             \* db.lBatch(): puts staged and not yet committed
    lastBlkShaCached,  \* db.lastBlkShaCached
    lastBlkSha,        \* db.lastBlkSha
    lastBlkIdx,        \* db.lastBlkIdx
    nextBlock,         \* db.nextBlock
    ret,               \* what the last operation returned to its caller (for
                       \* an insert, with the error of its predecessor lookup)
    inserted,          \* history: hash id -> its latest successful insert
    lastIns,           \* history: <<hash id>> of the latest successful insert
    nIns,              \* history: number of successful inserts
    ioFail,            \* whether the underlying store fails every Get
    dbLock,            \* db.dbLock: whether the mutex is locked
    pc                 \* per caller: the operation it is in, and where

vars == <<store, batch, lastBlkShaCached, lastBlkSha, lastBlkIdx, nextBlock,
          ret, inserted, lastIns, nIns, ioFail, dbLock, pc>>

\* ------------------------------------------------------------------ bounds
NumHashes == 2      \* hash ids 0..NumHashes (0 is the zero hash)
MaxInserts == 4     \* successful inserts in one run
NumThreads == 2     \* concurrent callers 1..NumThreads

\* --------------------------------------------------------------- constants
HashSize == 32      \* btcwire.ShaHash is 32 bytes: blkVal[0:32]
Int64Size == 8      \* var blkHeight int64, written by binary.Write
RangeMax == 500     \* endidx = startHeight + 500

Nil == "nil"
NoSha == << >>      \* a nil *btcwire.ShaHash
NotFound == "leveldb: not found"
DbCorrupt == "Db Corrupt 0"
StoreFailure == "leveldb: store failure"
MakeSlicePanic == "makeslice: cap out of range"

\* ------------------------------------------------------------------ hashes
\* A 32-byte hash; ids differ in the first and in the last byte.
Sha(k) == [i \in 1..HashSize |-> IF i \in {1, HashSize} THEN k ELSE 0]

HashIds == 0..NumHashes
ZeroHash == Sha(0)

\* The serialized block handed to insert with hash id k.  A block's hash is
\* computed from its serialization, so a hash comes with one record; records
\* of different hashes differ in content and in length.
Rec(k) == [i \in 1..(k + 1) |-> 10 * k + i]

\* ------------------------------------------------------------------- int64
RECURSIVE LEBytes(_, _)
LEBytes(n, k) ==
    IF k = 0 THEN <<>> ELSE <<n % 256>> \o LEBytes(n \div 256, k - 1)

\* binary.Write(&lw, binary.LittleEndian, blkHeight): two's complement.
LE8(n) == LEBytes(n, Int64Size)

RECURSIVE FromBE(_, _)
FromBE(b, k) ==
    IF k = 1 THEN (IF b[Len(b)] >= 128 THEN b[Len(b)] - 256 ELSE b[Len(b)])
    ELSE FromBE(b, k - 1) * 256 + b[Len(b) - k + 1]

\* The int64 held in the first 8 bytes, little-endian.
FromLE8(b) == FromBE(SubSeq(b, 1, Int64Size), Int64Size)

RECURSIVE AddBytes(_, _, _)
AddBytes(a, b, c) ==
    IF a = <<>> THEN <<>>
    ELSE LET s == Head(a) + Head(b) + c
         IN  <<s % 256>> \o AddBytes(Tail(a), Tail(b), s \div 256)

\* int64 addition and subtraction: wrap around modulo 2^64.
Add64(a, b) == AddBytes(a, b, 0)
Neg64(a) == AddBytes([i \in 1..Int64Size |-> 255 - a[i]], LE8(0), 1)
Sub64(a, b) == Add64(a, Neg64(b))
IsNeg64(a) == a[Int64Size] >= 128
Less64(a, b) ==
    IF IsNeg64(a) # IsNeg64(b) THEN IsNeg64(a) ELSE IsNeg64(Sub64(a, b))

MaxInt64 == [i \in 1..Int64Size |-> IF i = Int64Size THEN 127 ELSE 255]

\* btcdb.AllShas, the open-end sentinel of FetchHeightRange.
AllShas == [i \in 1..Int64Size |-> IF i = Int64Size THEN 64 ELSE 0]

\* --------------------------------------------------------------- key codec
shaBlkToKey(sha) == <<0>> \o sha
int64ToKey(h64) == <<1>> \o h64

\* ------------------------------------------------------------ record store
\* db.lDb.Get(key, db.ro): the committed store only.
Get(key) ==
    IF ioFail THEN [data |-> <<>>, err |-> StoreFailure]
    ELSE IF key \in DOMAIN store
         THEN [data |-> store[key], err |-> Nil]
         ELSE [data |-> <<>>, err |-> NotFound]

\* db.lBatch().Put(key, val)
Put(b, key, val) == Append(b, <<key, val>>)

RECURSIVE Apply(_, _)
Apply(s, b) ==
    IF b = <<>> THEN s
    ELSE LET k == Head(b)[1]
             v == Head(b)[2]
         IN  Apply([x \in DOMAIN s \cup {k} |-> IF x = k THEN v ELSE s[x]],
                   Tail(b))

\* ------------------------------------------------------------- chain index
\* A variant that reports every failure to decode as a missing key.
getBlkLocConflated(sha) ==
    LET g == Get(shaBlkToKey(sha))
    IN  IF g.err # Nil \/ Len(g.data) < Int64Size
        THEN [height |-> 0, err |-> NotFound]
        ELSE [height |-> FromLE8(g.data), err |-> Nil]

getBlkLoc(sha) ==
    LET g == Get(shaBlkToKey(sha))
    IN  IF g.err # Nil THEN [height |-> 0, err |-> g.err]
        ELSE IF Len(g.data) < Int64Size
             THEN [height |-> 0, err |-> DbCorrupt]
             ELSE [height |-> FromLE8(g.data), err |-> Nil]

\* blkVal[0:32] and blkVal[32:]: every value setBlk stages holds the 32-byte
\* hash first, so the slices are in range.
getBlkByHeight(blkHeight) ==
    LET g == Get(int64ToKey(LE8(blkHeight)))
    IN  IF g.err # Nil THEN [sha |-> NoSha, buf |-> <<>>, err |-> g.err]
        ELSE [sha |-> SubSeq(g.data, 1, HashSize),
              buf |-> SubSeq(g.data, HashSize + 1, Len(g.data)),
              err |-> Nil]

getBlk(sha) ==
    LET l == getBlkLoc(sha)
    IN  IF l.err # Nil THEN [height |-> 0, buf |-> <<>>, err |-> l.err]
        ELSE LET r == getBlkByHeight(l.height)
             IN  IF r.err # Nil
                 THEN [height |-> 0, buf |-> <<>>, err |-> r.err]
                 ELSE [height |-> l.height, buf |-> r.buf, err |-> Nil]

fetchSha(sha) == getBlk(sha)

\* A variant that stages the Hash Index Entry alone.
setBlkHashOnly(b, sha, blkHeight, buf) ==
    Put(b, shaBlkToKey(sha), LE8(blkHeight))

\* The batch after setBlk staged its two puts.
setBlk(b, sha, blkHeight, buf) ==
    Put(Put(b, shaBlkToKey(sha), LE8(blkHeight)),
        int64ToKey(LE8(blkHeight)), sha \o buf)

fetchBlockShaByHeight(height) ==
    LET g == Get(int64ToKey(LE8(height)))
    IN  IF g.err # Nil THEN [sha |-> NoSha, err |-> g.err]
        ELSE [sha |-> SubSeq(g.data, 1, HashSize), err |-> Nil]

\* ------------------------------------------------------------------- state
tip == <<lastBlkShaCached, lastBlkSha, lastBlkIdx, nextBlock>>
hist == <<inserted, lastIns, nIns>>
sync == <<dbLock, pc>>

Threads == 1..NumThreads
Idle == [op |-> "idle"]

\* A store that answers, a free lock and no caller inside an operation.
InitSync ==
    /\ ioFail = FALSE
    /\ dbLock = FALSE
    /\ pc = [t \in Threads |-> Idle]

Init ==
    /\ InitSync
    /\ store = << >>
    /\ batch = << >>
    /\ lastBlkShaCached = FALSE
    /\ lastBlkSha = ZeroHash
    /\ lastBlkIdx = -1
    /\ nextBlock = 0
    /\ ret = [op |-> "open"]
    /\ inserted = << >>
    /\ lastIns = << >>
    /\ nIns = 0

\* ----------------------------------------------------------------- actions
\* A variant that takes every missing predecessor for the genesis case.
insertHeightAlwaysGenesis(prevSha) ==
    LET l == getBlkLoc(prevSha)
    IN  [height |-> (IF l.err # Nil THEN -1 ELSE l.height) + 1, err |-> Nil]

\* A variant that gives the new block the height of its predecessor.
insertHeightOfPrev(prevSha) ==
    LET l == getBlkLoc(prevSha)
    IN  IF l.err # Nil /\ nextBlock # 0
        THEN [height |-> 0, err |-> l.err]
        ELSE [height |-> IF l.err # Nil THEN 0 ELSE l.height, err |-> Nil]

\* The first half of insertBlockData: the height it assigns, or its error.
insertHeight(prevSha) ==
    LET l == getBlkLoc(prevSha)
    IN  IF l.err # Nil /\ nextBlock # 0
        THEN [height |-> 0, err |-> l.err]
        ELSE [height |-> (IF l.err # Nil THEN -1 ELSE l.height) + 1,
              err |-> Nil]

\* A variant that keeps the cached hash of the previous tip.
updateCacheStaleSha(sha, blkHeight) ==
    /\ lastBlkShaCached' = TRUE
    /\ lastBlkSha' = lastBlkSha
    /\ lastBlkIdx' = blkHeight
    /\ nextBlock' = blkHeight + 1

\* "update the last block cache"
updateCache(sha, blkHeight) ==
    /\ lastBlkShaCached' = TRUE
    /\ lastBlkSha' = sha
    /\ lastBlkIdx' = blkHeight
    /\ nextBlock' = blkHeight + 1

\* A variant that stages the block before it looks at the predecessor.
insertBlockDataStageFirst(k, p, buf) ==
    LET r == insertHeight(Sha(p))
    IN  /\ ret' = [op |-> "insert", height |-> r.height, err |-> r.err,
                   prevErr |-> getBlkLoc(Sha(p)).err]
        /\ IF r.err # Nil
           THEN /\ batch' = setBlk(batch, Sha(k), nextBlock, buf)
                /\ UNCHANGED <<store, tip, hist, ioFail, sync>>
           ELSE /\ nIns < MaxInserts
                /\ batch' = setBlk(batch, Sha(k), r.height, buf)
                /\ updateCache(Sha(k), r.height)
                /\ inserted' = (k :> [buf |-> buf, height |-> r.height])
                                  @@ inserted
                /\ lastIns' = <<k>>
                /\ nIns' = nIns + 1
                /\ UNCHANGED <<store, ioFail, sync>>

insertBlockData(k, p, buf) ==
    LET r == insertHeight(Sha(p))
    IN  /\ ret' = [op |-> "insert", height |-> r.height, err |-> r.err,
                   prevErr |-> getBlkLoc(Sha(p)).err]
        /\ IF r.err # Nil
           THEN UNCHANGED <<store, batch, tip, hist, ioFail, sync>>
           ELSE /\ nIns < MaxInserts
                /\ batch' = setBlk(batch, Sha(k), r.height, buf)
                /\ updateCache(Sha(k), r.height)
                /\ inserted' = (k :> [buf |-> buf, height |-> r.height])
                                  @@ inserted
                /\ lastIns' = <<k>>
                /\ nIns' = nIns + 1
                /\ UNCHANGED <<store, ioFail, sync>>

\* The external commit of the pending batch: all of it, atomically.
Commit ==
    /\ batch # << >>
    /\ store' = Apply(store, batch)
    /\ batch' = << >>
    /\ ret' = [op |-> "commit"]
    /\ UNCHANGED <<tip, hist, ioFail, sync>>

\* A variant that reports the next height to assign as the tip height.
newestNextBlock ==
    IF lastBlkIdx = -1
    THEN [sha |-> ZeroHash, height |-> -1, err |-> Nil]
    ELSE [sha |-> lastBlkSha, height |-> nextBlock, err |-> Nil]

newest ==
    IF lastBlkIdx = -1
    THEN [sha |-> ZeroHash, height |-> -1, err |-> Nil]
    ELSE [sha |-> lastBlkSha, height |-> lastBlkIdx, err |-> Nil]

NewestSha ==
    /\ ret' = [op |-> "NewestSha"] @@ newest
    /\ UNCHANGED <<store, batch, tip, hist, ioFail, sync>>

FetchBlockHeightBySha(k) ==
    /\ ret' = [op |-> "FetchBlockHeightBySha", sha |-> k] @@ getBlkLoc(Sha(k))
    /\ UNCHANGED <<store, batch, tip, hist, ioFail, sync>>

\* The raw block and its height; parsing the bytes into a btcutil.Block is
\* btcutil's part.
FetchBlockBySha(k) ==
    /\ ret' = [op |-> "FetchBlockBySha", sha |-> k] @@ fetchSha(Sha(k))
    /\ UNCHANGED <<store, batch, tip, hist, ioFail, sync>>

FetchBlockShaByHeight(h) ==
    /\ ret' = [op |-> "FetchBlockShaByHeight", at |-> h]
                 @@ fetchBlockShaByHeight(h)
    /\ UNCHANGED <<store, batch, tip, hist, ioFail, sync>>

\* The loop of FetchHeightRange from height on: it ends at endidx, or at the
\* first height whose Get fails.
RECURSIVE scanHeights(_, _)
scanHeights(height, endidx) ==
    IF ~Less64(height, endidx) THEN << >>
    ELSE LET g == Get(int64ToKey(height))
         IN  IF g.err # Nil THEN << >>
             ELSE <<SubSeq(g.data, 1, HashSize)>>
                      \o scanHeights(Add64(height, LE8(1)), endidx)

\* make([]btcwire.ShaHash, 0, n) panics at run time when n is negative.
fetchHeightRange(startHeight, endHeight) ==
    LET endidx == IF endHeight = AllShas
                  THEN Add64(startHeight, LE8(RangeMax))
                  ELSE endHeight
    IN  IF IsNeg64(Sub64(endidx, startHeight))
        THEN [val |-> << >>, err |-> Nil, panic |-> MakeSlicePanic]
        ELSE [val |-> scanHeights(startHeight, endidx), err |-> Nil,
              panic |-> Nil]

FetchHeightRange(startHeight, endHeight) ==
    /\ ret' = [op |-> "FetchHeightRange", start |-> startHeight,
               end |-> endHeight] @@ fetchHeightRange(startHeight, endHeight)
    /\ UNCHANGED <<store, batch, tip, hist, ioFail, sync>>

\* The heights 0..n-1 that hold an entry, counted from 0 up to the first gap.
RECURSIVE chainLen(_)
chainLen(h) ==
    IF int64ToKey(LE8(h)) \in DOMAIN store THEN chainLen(h + 1) ELSE h

\* A crash and the reopening that follows it: the pending batch is lost, and
\* the tip cache is set again from the committed entries.
Reopen ==
    LET n == chainLen(0)
    IN  /\ batch' = << >>
        /\ lastBlkShaCached' = FALSE
        /\ lastBlkSha' = IF n = 0 THEN ZeroHash
                         ELSE fetchBlockShaByHeight(n - 1).sha
        /\ lastBlkIdx' = n - 1
        /\ nextBlock' = n
        /\ inserted' = << >>
        /\ lastIns' = << >>
        /\ ret' = [op |-> "open"]
        /\ UNCHANGED <<store, nIns, ioFail, sync>>

\* Damage to the stored payload of a Hash Index Entry: it is cut to n bytes.
Damage(k, n) ==
    LET key == shaBlkToKey(Sha(k))
    IN  /\ key \in DOMAIN store
        /\ n < Len(store[key])
        /\ store' = [store EXCEPT ![key] = SubSeq(store[key], 1, n)]
        /\ ret' = [op |-> "damage"]
        /\ UNCHANGED <<batch, tip, hist, ioFail, sync>>

\* The underlying store starts to fail its Gets, or answers again.
Fault ==
    /\ ioFail' = ~ioFail
    /\ ret' = [op |-> "fault"]
    /\ UNCHANGED <<store, batch, tip, hist, sync>>

\* A variant that takes only a missing key for absence.
blkExistsShaNotFoundOnly(sha) == getBlkLoc(sha).err # NotFound

blkExistsSha(sha) == getBlkLoc(sha).err = Nil

ExistsSha(k) ==
    /\ ret' = [op |-> "ExistsSha", sha |-> k, exists |-> blkExistsSha(Sha(k))]
    /\ UNCHANGED <<store, batch, tip, hist, ioFail, sync>>

\* A block names another hash as its predecessor, never its own.
Insert ==
    \E k \in HashIds : \E p \in HashIds \ {k} :
        insertBlockData(k, p, Rec(k))

Next ==
    \/ Insert
    \/ Commit
    \/ NewestSha

\* Inserts and commits, with reads of the tip.
Spec == Init /\ [][Next]_vars

NextCrash ==
    \/ Insert
    \/ Commit
    \/ Reopen

\* Inserts and commits, with crashes that lose the pending batch.
SpecCrash == Init /\ [][NextCrash]_vars

\* The batch that inserting hash ids 0..n-1 as one chain stages.
RECURSIVE chainBatch(_)
chainBatch(n) ==
    IF n = 0 THEN << >>
    ELSE setBlk(chainBatch(n - 1), Sha(n - 1), n - 1, Rec(n - 1))

\* The states after hash ids 0..n-1 were inserted as one chain and committed.
InitChain ==
    \E n \in 0..(NumHashes + 1) :
        /\ InitSync
        /\ store = Apply(<< >>, chainBatch(n))
        /\ batch = << >>
        /\ lastBlkShaCached = (n > 0)
        /\ lastBlkSha = IF n = 0 THEN ZeroHash ELSE Sha(n - 1)
        /\ lastBlkIdx = n - 1
        /\ nextBlock = n
        /\ ret = [op |-> "open"]
        /\ inserted = [k \in 0..(n - 1) |-> [buf |-> Rec(k), height |-> k]]
        /\ lastIns = IF n = 0 THEN << >> ELSE <<n - 1>>
        /\ nIns = n

NextDamage ==
    \/ \E k \in HashIds, n \in 0..(Int64Size - 1) : Damage(k, n)
    \/ \E k \in HashIds : FetchBlockHeightBySha(k)

\* Reads of a store whose Hash Index Entries suffer damage.
SpecDamage == InitChain /\ [][NextDamage]_vars

NextRead ==
    \/ Insert
    \/ Commit
    \/ \E k \in HashIds : FetchBlockBySha(k)
    \/ \E k \in HashIds : FetchBlockHeightBySha(k)
    \/ \E h \in 0..MaxInserts : FetchBlockShaByHeight(h)

\* Inserts and commits, with the point lookups by hash and by height.
SpecRead == Init /\ [][NextRead]_vars

\* Heights handed to FetchHeightRange: around the chain, and around the
\* largest int64.  Explicit ends stay near the chain, so that the capacity
\* asked of make() is small whenever it is not negative.
RangeStarts ==
    {LE8(n) : n \in -1..(NumHashes + 1)}
        \cup {MaxInt64, Sub64(MaxInt64, LE8(RangeMax - 1)),
              Sub64(MaxInt64, LE8(RangeMax))}
RangeEnds == {LE8(n) : n \in 0..(NumHashes + 2)} \cup {AllShas}

NextRange ==
    \E s \in RangeStarts, e \in RangeEnds : FetchHeightRange(s, e)

\* Range reads of a committed chain.
SpecRange == InitChain /\ [][NextRange]_vars

NextExists ==
    \/ \E k \in HashIds, n \in 0..(Int64Size - 1) : Damage(k, n)
    \/ Fault
    \/ \E k \in HashIds : ExistsSha(k)

\* Existence checks of a store that suffers damage and fails at times.
SpecExists == InitChain /\ [][NextExists]_vars

NextFault ==
    \/ Fault
    \/ Insert
    \/ \E k \in HashIds : FetchBlockBySha(k)
    \/ \E k \in HashIds : FetchBlockHeightBySha(k)
    \/ \E h \in 0..MaxInserts : FetchBlockShaByHeight(h)
    \/ \E s \in RangeStarts, e \in RangeEnds : FetchHeightRange(s, e)

\* Inserts and lookups on a committed chain whose store fails at times.
SpecFault == InitChain /\ [][NextFault]_vars

\* ------------------------------------------------------------- concurrency
\* A variant that takes the mutex without waiting for it.
LockNoWait(t) == dbLock' = TRUE

\* db.dbLock.Lock(): waits until the mutex is free, then takes it.
Lock(t) == ~dbLock /\ dbLock' = TRUE

\* defer db.dbLock.Unlock(): runs on every way out, a panic included.
Unlock(t) == dbLock' = FALSE

\* The public operations of block.go as a caller invokes them.
ReadCalls ==
    [op : {"FetchBlockBySha", "FetchBlockHeaderBySha",
           "FetchBlockHeightBySha", "ExistsSha"}, sha : HashIds]
        \cup [op : {"FetchBlockShaByHeight"}, at : 0..1]
        \cup [op : {"FetchHeightRange"}, start : {LE8(0), LE8(1)},
              end : {LE8(0), AllShas}]
        \cup {[op |-> "NewestSha"]}

\* Inserts: the caller of insertBlockData takes the same lock around it.
InsertCalls ==
    {[op |-> "InsertBlock", sha |-> k, prev |-> p] :
        k \in HashIds, p \in HashIds} \ [op : {"InsertBlock"},
                                          sha : {0}, prev : {0}]

\* Where a call's body starts, as a line of block.go.
firstLine(c) ==
    CASE c.op = "FetchBlockBySha" -> 20
      [] c.op = "FetchBlockHeaderBySha" -> 56
      [] c.op = "FetchBlockHeightBySha" -> 47
      [] c.op = "ExistsSha" -> 217
      [] c.op = "FetchBlockShaByHeight" -> 244
      [] c.op = "FetchHeightRange" -> 272
      [] c.op = "NewestSha" -> 309
      [] c.op = "InsertBlock" -> 164

\* A caller outside every operation calls one and takes the lock.
Enter(t) ==
    /\ pc[t] = Idle
    /\ \E c \in ReadCalls \cup InsertCalls :
          /\ c.op = "InsertBlock" => (c.sha # c.prev /\ nIns < MaxInserts)
          /\ pc' = [pc EXCEPT ![t] = [line |-> firstLine(c)] @@ c]
    /\ Lock(t)
    /\ UNCHANGED <<store, batch, tip, hist, ioFail, ret>>

\* The return of a call: its result goes to the caller, the lock is freed.
Return(t, r) ==
    /\ ret' = r
    /\ Unlock(t)
    /\ pc' = [pc EXCEPT ![t] = Idle]

\* What the body of a lookup returns.  Of FetchBlockHeaderBySha it is the
\* raw block handed to Deserialize; decoding the header is btcwire's part.
readResult(c) ==
    CASE c.op = "FetchBlockBySha" -> fetchSha(Sha(c.sha))
      [] c.op = "FetchBlockHeaderBySha" ->
            [buf |-> fetchSha(Sha(c.sha)).buf, err |-> fetchSha(Sha(c.sha)).err]
      [] c.op = "FetchBlockHeightBySha" -> getBlkLoc(Sha(c.sha))
      [] c.op = "ExistsSha" -> [exists |-> blkExistsSha(Sha(c.sha))]
      [] c.op = "FetchBlockShaByHeight" -> fetchBlockShaByHeight(c.at)
      [] c.op = "FetchHeightRange" -> fetchHeightRange(c.start, c.end)

\* The body of every lookup but NewestSha, up to its return.
ReadBody(t) ==
    /\ pc[t] # Idle
    /\ pc[t].op \in {c.op : c \in ReadCalls} \ {"NewestSha"}
    /\ Return(t, [x \in DOMAIN pc[t] \ {"line"} |-> pc[t][x]]
                     @@ readResult(pc[t]))
    /\ UNCHANGED <<store, batch, tip, hist, ioFail>>

\* if db.lastBlkIdx == -1 { return &btcwire.ShaHash{}, -1, nil }
NewestSha309(t) ==
    /\ pc[t] # Idle
    /\ pc[t].line = 309
    /\ IF lastBlkIdx = -1
       THEN Return(t, [op |-> "NewestSha", sha |-> ZeroHash, height |-> -1,
                       err |-> Nil])
       ELSE /\ pc' = [pc EXCEPT ![t] = [op |-> "NewestSha", line |-> 312]]
            /\ UNCHANGED <<ret, dbLock>>
    /\ UNCHANGED <<store, batch, tip, hist, ioFail>>

\* sha := db.lastBlkSha
NewestSha312(t) ==
    /\ pc[t] # Idle
    /\ pc[t].line = 312
    /\ pc' = [pc EXCEPT ![t] = [op |-> "NewestSha", line |-> 314,
                                sha |-> lastBlkSha]]
    /\ UNCHANGED <<store, batch, tip, hist, ioFail, ret, dbLock>>

\* return &sha, db.lastBlkIdx, nil
NewestSha314(t) ==
    /\ pc[t] # Idle
    /\ pc[t].line = 314
    /\ Return(t, [op |-> "NewestSha", sha |-> pc[t].sha,
                  height |-> lastBlkIdx, err |-> Nil])
    /\ UNCHANGED <<store, batch, tip, hist, ioFail>>

\* insertBlockData from the predecessor lookup to setBlk.
Insert164(t) ==
    /\ pc[t] # Idle
    /\ pc[t].line = 164
    /\ LET c == pc[t]
           r == insertHeight(Sha(c.prev))
           e == getBlkLoc(Sha(c.prev)).err
       IN  IF r.err # Nil
           THEN /\ Return(t, [op |-> "insert", height |-> r.height,
                              err |-> r.err, prevErr |-> e])
                /\ UNCHANGED batch
           ELSE /\ batch' = setBlk(batch, Sha(c.sha), r.height, Rec(c.sha))
                /\ pc' = [pc EXCEPT ![t] = [line |-> 188, prevErr |-> e,
                                            blkHeight |-> r.height] @@ c]
                /\ UNCHANGED <<ret, dbLock>>
    /\ UNCHANGED <<store, tip, hist, ioFail>>

\* db.lastBlkShaCached = true
Insert188(t) ==
    /\ pc[t] # Idle
    /\ pc[t].line = 188
    /\ lastBlkShaCached' = TRUE
    /\ pc' = [pc EXCEPT ![t].line = 189]
    /\ UNCHANGED <<store, batch, lastBlkSha, lastBlkIdx, nextBlock, hist,
                   ioFail, ret, dbLock>>

\* db.lastBlkSha = *sha
Insert189(t) ==
    /\ pc[t] # Idle
    /\ pc[t].line = 189
    /\ lastBlkSha' = Sha(pc[t].sha)
    /\ pc' = [pc EXCEPT ![t].line = 190]
    /\ UNCHANGED <<store, batch, lastBlkShaCached, lastBlkIdx, nextBlock, hist,
                   ioFail, ret, dbLock>>

\* db.lastBlkIdx = blkHeight
Insert190(t) ==
    /\ pc[t] # Idle
    /\ pc[t].line = 190
    /\ lastBlkIdx' = pc[t].blkHeight
    /\ pc' = [pc EXCEPT ![t].line = 191]
    /\ UNCHANGED <<store, batch, lastBlkShaCached, lastBlkSha, nextBlock, hist,
                   ioFail, ret, dbLock>>

\* db.nextBlock = blkHeight + 1
Insert191(t) ==
    /\ pc[t] # Idle
    /\ pc[t].line = 191
    /\ nextBlock' = pc[t].blkHeight + 1
    /\ pc' = [pc EXCEPT ![t].line = 193]
    /\ UNCHANGED <<store, batch, lastBlkShaCached, lastBlkSha, lastBlkIdx, hist,
                   ioFail, ret, dbLock>>

\* return blkHeight, nil
Insert193(t) ==
    /\ pc[t] # Idle
    /\ pc[t].line = 193
    /\ Return(t, [op |-> "insert", height |-> pc[t].blkHeight, err |-> Nil,
                  prevErr |-> pc[t].prevErr])
    /\ inserted' = (pc[t].sha :> [buf |-> Rec(pc[t].sha),
                                  height |-> pc[t].blkHeight]) @@ inserted
    /\ lastIns' = <<pc[t].sha>>
    /\ nIns' = nIns + 1
    /\ UNCHANGED <<store, batch, tip, ioFail>>

NextLock ==
    \E t \in Threads :
        \/ Enter(t)
        \/ ReadBody(t)
        \/ NewestSha309(t)
        \/ NewestSha312(t)
        \/ NewestSha314(t)
        \/ Insert164(t)
        \/ Insert188(t)
        \/ Insert189(t)
        \/ Insert190(t)
        \/ Insert191(t)
        \/ Insert193(t)

\* Concurrent callers of the public operations on a committed chain, each
\* operation line by line.
SpecLock == InitChain /\ [][NextLock]_vars

\* ------------------------------------------------------------------ claims
HashKeys == {k \in HashIds : shaBlkToKey(Sha(k)) \in DOMAIN store}
Heights == {h \in 0..MaxInserts : int64ToKey(LE8(h)) \in DOMAIN store}

\* C1: an insert whose predecessor height_of cannot find succeeds exactly
\* when the chain is empty (nextBlock = 0), and then returns height 0; on a
\* non-empty chain it returns an error.
C1_GenesisOnlyOnce ==
    [][(ret'.op = "insert" /\ ret'.prevErr # Nil)
          => /\ (ret'.err = Nil) <=> (nextBlock = 0)
             /\ (ret'.err = Nil) => (ret'.height = 0)
             /\ (ret'.err # Nil) => (ret'.err = ret'.prevErr)]_vars

\* An insert was refused on a chain that already holds committed blocks.
C1_Witness ==
    /\ ret.op = "insert"
    /\ ret.prevErr = NotFound
    /\ ret.err = NotFound
    /\ HashKeys # {}
    /\ nextBlock # 0

\* C5: newest() returns the hash of the most recently inserted block and the
\* height that insert returned, and the zero hash with height -1 and no error
\* before any insert; a failed insert leaves both as they were.
C5_TipConsistency ==
    LET want == IF lastIns = << >>
                THEN [sha |-> ZeroHash, height |-> -1, err |-> Nil]
                ELSE [sha |-> Sha(lastIns[1]),
                      height |-> inserted[lastIns[1]].height, err |-> Nil]
    IN  /\ newest = want
        /\ ret.op = "NewestSha"
             => [sha |-> ret.sha, height |-> ret.height, err |-> ret.err] = want
        /\ (ret.op = "insert" /\ ret.err = Nil)
             => (newest.height = ret.height)

\* newest() answered after a second block was inserted on top of the first.
C5_Witness ==
    /\ ret.op = "NewestSha"
    /\ ret.height = 1
    /\ ret.sha = Sha(2)
    /\ nIns >= 2

\* C6: in every committed store state, also after a crash that discards the
\* pending batch, a Hash Index Entry exists for a block if and only if a
\* Height Index Entry exists at the height it names.
C6_AtomicPairing ==
    /\ \A k \in HashKeys :
          /\ getBlkLoc(Sha(k)).err = Nil
          /\ getBlkLoc(Sha(k)).height \in Heights
    /\ \A h \in Heights :
          \E k \in HashKeys : fetchBlockShaByHeight(h).sha = Sha(k)

\* Two inserts were committed, and a crash then discarded a staged third one.
C6_Witness ==
    /\ ret.op = "open"
    /\ Cardinality(Heights) >= 2
    /\ nIns >= 3

\* C7: an insert that fails leaves the pending batch, the committed store and
\* the Tip State unchanged.
C7_FailedInsertNoEffect ==
    [][(ret'.op = "insert" /\ ret'.err # Nil)
          => UNCHANGED <<store, batch, tip>>]_vars

\* An insert was refused while another insert was staged and not committed.
C7_Witness ==
    /\ ret.op = "insert"
    /\ ret.err # Nil
    /\ batch # << >>
    /\ lastBlkShaCached

\* C10: height_by_hash fails with the Corruption error when the entry exists
\* with a payload shorter than the 8-byte height, and with NotFound when the
\* key is absent; the two errors differ.
C10_CorruptionIsolation ==
    /\ DbCorrupt # NotFound
    /\ \A k \in HashIds :
          LET key == shaBlkToKey(Sha(k))
              r == getBlkLoc(Sha(k))
          IN  /\ key \notin DOMAIN store => r.err = NotFound
              /\ (key \in DOMAIN store /\ Len(store[key]) < Int64Size)
                    => r.err = DbCorrupt
              /\ (key \in DOMAIN store /\ Len(store[key]) >= Int64Size)
                    => r.err = Nil
    /\ ret.op = "FetchBlockHeightBySha"
          => LET key == shaBlkToKey(Sha(ret.sha))
             IN  /\ key \notin DOMAIN store => ret.err = NotFound
                 /\ (key \in DOMAIN store /\ Len(store[key]) < Int64Size)
                       => ret.err = DbCorrupt

\* height_by_hash reported Corruption for a damaged entry.
C10_Witness ==
    /\ ret.op = "FetchBlockHeightBySha"
    /\ ret.err = DbCorrupt
    /\ shaBlkToKey(Sha(ret.sha)) \in DOMAIN store
\* C2: once every batch is committed, height_by_hash and hash_by_height are
\* mutual inverses: every inserted hash s is stored at the height its Hash
\* Index Entry names, and every occupied height h holds a hash whose Hash
\* Index Entry names h.
C2_MutualInverses ==
    batch = << >> =>
        /\ \A k \in DOMAIN inserted :
              LET l == getBlkLoc(Sha(k))
              IN  /\ l.err = Nil
                  /\ fetchBlockShaByHeight(l.height)
                        = [sha |-> Sha(k), err |-> Nil]
        /\ \A h \in Heights :
              getBlkLoc(fetchBlockShaByHeight(h).sha)
                 = [height |-> h, err |-> Nil]

\* C3: once every batch is committed, the occupied heights are 0..N-1 without
\* holes, and once a block exists N = tip height + 1 = next-assignable height.
C3_Contiguity ==
    batch = << >> =>
        LET N == Cardinality(Heights)
        IN  /\ Heights = 0..(N - 1)
            /\ nIns > 0 => /\ N = lastBlkIdx + 1
                           /\ N = nextBlock

\* C4: block_by_hash of a successfully inserted and committed hash returns
\* the record that was inserted, without the hash prefix, and the height the
\* insert returned.
C4_RoundTrip ==
    (ret.op = "FetchBlockBySha" /\ batch = << >> /\ ret.sha \in DOMAIN inserted)
        => /\ ret.err = Nil
           /\ ret.buf = inserted[ret.sha].buf
           /\ ret.height = inserted[ret.sha].height

\* The hashes range(start, end) is to return: those at start, start+1, ...
\* up to the limit, or to the first height without an entry.
RECURSIVE prefixFrom(_, _)
prefixFrom(h, limit) ==
    IF limit <= 0 \/ h \notin Heights THEN << >>
    ELSE <<fetchBlockShaByHeight(h).sha>> \o prefixFrom(h + 1, limit - 1)

\* Whether an int64 lies in 0..2^24-1, where FromLE8 is an integer of TLC.
Small64(a) == \A i \in 4..Int64Size : a[i] = 0

\* C8: range(start, end) returns the hashes at start, start+1, ... in
\* ascending order, up to end - start of them (500 for AllShas), and stops at
\* the first height without an entry.
C8_RangeSemantics ==
    (/\ ret.op = "FetchHeightRange"
     /\ Small64(ret.start)
     /\ ret.end # AllShas => Small64(ret.end))
        => /\ ret.panic = Nil
           /\ ret.val = prefixFrom(FromLE8(ret.start),
                                   IF ret.end = AllShas THEN RangeMax
                                   ELSE FromLE8(ret.end) - FromLE8(ret.start))

\* C9: range never fails: for every pair of arguments it returns a sequence
\* with a nil error and does not abort.
C9_RangeNeverFails ==
    ret.op = "FetchHeightRange" => (ret.panic = Nil /\ ret.err = Nil)

\* C11: exists(hash) returns true exactly when height_of(hash) succeeds, and
\* false when it fails with NotFound, with Corruption or with a failure of
\* the underlying store; it returns a boolean and nothing else, and changes
\* no state.
C11_ExistsIsHeightOfSucceeds ==
    [][ret'.op = "ExistsSha"
          => LET key == shaBlkToKey(Sha(ret'.sha))
                 l == getBlkLoc(Sha(ret'.sha))
             IN  /\ DOMAIN ret' = {"op", "sha", "exists"}
                 /\ ret'.exists \in BOOLEAN
                 /\ ret'.exists <=> (l.err = Nil)
                 /\ l.err \in {NotFound, DbCorrupt, StoreFailure}
                       => ret'.exists = FALSE
                 /\ ret'.exists <=> /\ ~ioFail
                                    /\ key \in DOMAIN store
                                    /\ Len(store[key]) >= Int64Size
                 /\ UNCHANGED <<store, batch, tip, ioFail, sync>>]_vars

\* exists answered false for a hash whose entry is there, but damaged.
C11_Witness ==
    /\ ret.op = "ExistsSha"
    /\ ret.exists = FALSE
    /\ ~ioFail
    /\ shaBlkToKey(Sha(ret.sha)) \in DOMAIN store
    /\ getBlkLoc(Sha(ret.sha)).err = DbCorrupt
\* The largest of a non-empty set of heights.
MaxOf(S) == CHOOSE h \in S : \A g \in S : g <= h

\* C12: once a block was inserted and every batch is committed, the Tip State
\* holds the highest occupied height and the hash stored at that height, also
\* after an insert whose predecessor is not the current tip.
C12_TipIsHighest ==
    (batch = << >> /\ nIns > 0) =>
        /\ lastBlkIdx = MaxOf(Heights)
        /\ fetchBlockShaByHeight(lastBlkIdx) = [sha |-> lastBlkSha, err |-> Nil]

\* C13: the store is append-only: an entry that is in the committed store
\* stays there with the same payload, whatever operation comes next.
C13_AppendOnly ==
    [][\A key \in DOMAIN store :
          key \in DOMAIN store' /\ store'[key] = store[key]]_vars

\* C14: the tip height and the next-assignable height never decrease, and the
\* n-th successful insert returns height n - 1.
C14_MonotoneGrowth ==
    [][/\ lastBlkIdx' >= lastBlkIdx
       /\ nextBlock' >= nextBlock
       /\ (ret'.op = "insert" /\ ret'.err = Nil) => ret'.height = nIns]_vars
\* The end index FetchHeightRange(start, end) scans up to.
endIdx(start, end) ==
    IF end = AllShas THEN Add64(start, LE8(RangeMax)) ELSE end

\* C15: an operation other than exists whose lookup fails with Corruption or
\* with a failure of the underlying store returns that error: an insert
\* returns the error of its predecessor lookup unless it is NotFound, and a
\* point lookup or a range that reads a failing store returns the failure.
C15_NoSwallowedError ==
    /\ (ret.op = "insert" /\ ret.prevErr \notin {Nil, NotFound})
          => ret.err = ret.prevErr
    /\ (/\ ret.op \in {"FetchBlockBySha", "FetchBlockHeightBySha",
                        "FetchBlockShaByHeight"}
        /\ ioFail)
          => ret.err = StoreFailure
    /\ (/\ ret.op = "FetchHeightRange"
        /\ ret.panic = Nil
        /\ Less64(ret.start, endIdx(ret.start, ret.end))
        /\ ioFail)
          => ret.err = StoreFailure
\* The callers that are inside the body of an operation.
Inside == {t \in Threads : pc[t] # Idle}

\* What newest() is to return after the inserts that have returned so far.
tipOfHistory ==
    IF lastIns = << >>
    THEN [sha |-> ZeroHash, height |-> -1, err |-> Nil]
    ELSE [sha |-> Sha(lastIns[1]), height |-> inserted[lastIns[1]].height,
          err |-> Nil]

\* C16: every public operation holds the one lock from the start of its body
\* to its return, errors and panics included: at most one caller is inside a
\* body, the lock is held exactly while one is, and a lookup never runs
\* against, nor returns, a Tip State that an insert has updated in part.
C16_LockScope ==
    /\ Cardinality(Inside) <= 1
    /\ dbLock <=> (Inside # {})
    /\ \A t \in Inside :
          pc[t].op # "InsertBlock"
             => (newest = tipOfHistory /\ nextBlock = lastBlkIdx + 1)
    /\ ret.op = "NewestSha"
          => [sha |-> ret.sha, height |-> ret.height, err |-> ret.err]
                = tipOfHistory

\* A lookup failed and returned while other callers were outside: the lock
\* is free again, after an insert had moved the tip.
C16_Witness ==
    /\ ret.op = "FetchBlockHeightBySha"
    /\ ret.err = NotFound
    /\ Inside = {}
    /\ ~dbLock
    /\ batch # << >>
\* C17, as claimed: an insert of a new block that names the latest
\* successfully inserted block as its predecessor succeeds and returns that
\* block's height plus one, whether or not the pending batch was committed in
\* between.
C17_ChainOfStagedInserts ==
    [][\A k \in HashIds :
          (/\ lastIns # << >>
           /\ k \notin DOMAIN inserted
           /\ insertBlockData(k, lastIns[1], Rec(k)))
             => /\ ret'.err = Nil
                /\ ret'.height = inserted[lastIns[1]].height + 1]_vars

\* C17: when the pending batch is committed before the next insert, the first
\* insert into an empty chain returns height 0, and an insert of a new block
\* that names the latest successfully inserted block as its predecessor
\* succeeds and returns that block's height plus one.
C17_ChainOfCommittedInserts ==
    [][\A k \in HashIds :
          (/\ batch = << >>
           /\ k \notin DOMAIN inserted
           /\ \E p \in HashIds \ {k} :
                 /\ lastIns # << >> => p = lastIns[1]
                 /\ insertBlockData(k, p, Rec(k)))
             => /\ ret'.err = Nil
                /\ ret'.height = IF lastIns = << >> THEN 0
                                 ELSE inserted[lastIns[1]].height + 1]_vars

\* The third block of a chain was inserted after the first two were
\* committed, and got height 2.
C17_Witness ==
    /\ ret.op = "insert"
    /\ ret.err = Nil
    /\ ret.prevErr = Nil
    /\ ret.height = 2
    /\ nIns = 3
    /\ Len(batch) = 2
    /\ Heights = {0, 1}

\* C18, as claimed: whenever newest() returns a height h >= 0 with hash s,
\* height_by_hash(s) succeeds with h, hash_by_height(h) succeeds with s, and
\* exists(s) is true.
C18_TipNotAheadOfReads ==
    (ret.op = "NewestSha" /\ ret.height >= 0)
        => /\ getBlkLoc(ret.sha) = [height |-> ret.height, err |-> Nil]
           /\ fetchBlockShaByHeight(ret.height)
                 = [sha |-> ret.sha, err |-> Nil]
           /\ blkExistsSha(ret.sha)
\* C18: once the pending batch is committed, whenever newest() returns a
\* height h >= 0 with hash s, height_by_hash(s) succeeds with h,
\* hash_by_height(h) succeeds with s, and exists(s) is true.
C18_TipCommittedIsReadable ==
    batch = << >> =>
        /\ newest.height >= 0
              => /\ getBlkLoc(newest.sha)
                       = [height |-> newest.height, err |-> Nil]
                 /\ fetchBlockShaByHeight(newest.height)
                       = [sha |-> newest.sha, err |-> Nil]
                 /\ blkExistsSha(newest.sha)
        /\ (ret.op = "NewestSha" /\ ret.height >= 0)
              => /\ getBlkLoc(ret.sha) = [height |-> ret.height, err |-> Nil]
                 /\ fetchBlockShaByHeight(ret.height)
                       = [sha |-> ret.sha, err |-> Nil]
                 /\ blkExistsSha(ret.sha)

\* newest() answered with a block at height 1 whose insert is committed.
C18_Witness ==
    /\ ret.op = "NewestSha"
    /\ ret.height = 1
    /\ batch = << >>
    /\ Heights = {0, 1}
====
